---- MODULE Spec2Model ----
(***************************************************************************)
(* The Trackable wrapper of src/src/Trackable.ts: a value threaded through *)
(* map/flatMap stages with an accumulated log of analytics events, drained *)
(* by run/runAsync.                                                        *)
(*                                                                         *)
(* Values are JavaScript values: primitives, functions, and references to  *)
(* objects that live in a heap and can be mutated in place by the          *)
(* transformation functions.  The result of structuredClone is a fresh     *)
(* object graph that nothing but the record holding it refers to; it is    *)
(* represented by its contents (kind "obj").  A record that holds a live   *)
(* reference (kind "ref") instead is read through the heap (View).         *)
(* Every Trackable instance owns the array of its events (the constructor  *)
(* is only ever handed a fresh array), so the array is the log field of    *)
(* the instance; a sink is handed that very array and may modify it.       *)
(***************************************************************************)
EXTENDS Integers, Sequences, FiniteSets, TLC

VARIABLES heap, ws, drains, sinkCalls, thrown

vars == <<heap, ws, drains, sinkCalls, thrown>>

\* ---------------------------------------------------------------- bounds
\* The calls of of, map, flatMap, run and runAsync that return; the
\* instances among them, and the drains.
MaxCalls == 4
MaxWrappers == 3
MaxDrains == 2

\* ---------------------------------------------------------------- values
NoObj == [name |-> "", age |-> 0]

Num(n) == [k |-> "number", n |-> n, o |-> NoObj]
Str == [k |-> "string", n |-> 0, o |-> NoObj]
Undefined == [k |-> "undefined", n |-> 0, o |-> NoObj]
Null == [k |-> "null", n |-> 0, o |-> NoObj]
Fn == [k |-> "function", n |-> 0, o |-> NoObj]
Ref(a) == [k |-> "ref", n |-> a, o |-> NoObj]
Obj(c) == [k |-> "obj", n |-> 0, o |-> c]

\* JavaScript's typeof: null and every object answer "object".
TypeOf(v) == IF v.k \in {"null", "ref", "obj"} THEN "object" ELSE v.k

\* What a stored value shows when it is read: an object reference shows the
\* present contents of the object it refers to.
View(v, h) == IF v.k = "ref" THEN Obj(h[v.n]) ELSE v

\* structuredClone never copies: the snapshot stays a reference to the live
\* object.
structuredCloneShared(v, h) == [ok |-> v.k # "function", v |-> v]

\* structuredClone(v): a deep copy of v; a function cannot be cloned
\* (DataCloneError).
structuredClone(v, h) ==
    [ok |-> v.k # "function",
     v |-> IF v.k = "ref" THEN Obj(h[v.n]) ELSE v]

\* ---------------------------------------------------------------- events
\* metadata: { caller?, input?, currentValue }; keys is the set of the
\* properties that are present.
Metadata(keys, caller, input, currentValue) ==
    [keys |-> keys, caller |-> caller, input |-> input,
     currentValue |-> currentValue]

\* An analytics event: the free-form fields (a set of <<key, value>>) and
\* the metadata property.
AnalyticsEvent(fields, metadata) == [fields |-> fields, metadata |-> metadata]

NoPayload == {}

\* { ...analyticsEvents, metadata }: the metadata property overrides a
\* property of that name in the spread object.
SpreadWithoutMetadata(fields) == {p \in fields : p[1] # "metadata"}

\* A Trackable instance: its value and its array of events.
Trackable(value, analyticsEvents) == [value |-> value, log |-> analyticsEvents]

NoTrackable == Trackable(Undefined, <<>>)

\* The outcome of a call: ok is FALSE when the call threw, err being what
\* it threw; heap is the heap the call leaves; t the instance it returned;
\* ret the value the transformation function returned (map); inner the
\* instance the transformation function returned (flatMap).
Outcome(ok, h, t, ret, inner) ==
    [ok |-> ok, err |-> "none", heap |-> h, t |-> t, ret |-> ret,
     inner |-> inner]

Threw(h, err) ==
    [Outcome(FALSE, h, NoTrackable, Undefined, NoTrackable) EXCEPT !.err = err]

\* of takes the value itself as the snapshot, without structuredClone.
OfLive(value, payload, h) ==
    Outcome(TRUE, h,
            Trackable(value,
                <<AnalyticsEvent(SpreadWithoutMetadata(payload),
                     Metadata({"currentValue"}, "", Undefined, value))>>),
            Undefined, NoTrackable)

\* static of(value, analyticsEvents?)
Of(value, payload, h) ==
    LET c == structuredClone(value, h) IN
    IF ~c.ok THEN Threw(h, "DataCloneError")
    ELSE Outcome(TRUE, h,
                 Trackable(value,
                     <<AnalyticsEvent(SpreadWithoutMetadata(payload),
                          Metadata({"currentValue"}, "", Undefined, c.v))>>),
                 Undefined, NoTrackable)

\* ------------------------------------------- transformation functions
\* The functions handed to map: addTwo (x => x + 2, named), arrow (the same
\* function written inline, without a name), changeName (sets the name of
\* the person it is given and returns nothing), one (returns 1 whatever it
\* is given), thunk (returns a function), boom (throws).
MapFns == {"addTwo", "arrow", "changeName", "one", "thunk", "boom"}

\* The functions handed to flatMap: addThreeAndRandom and celebrateBDay as
\* in the tests, addThreeThenTwo (v => Trackable.of(v + 3, { step: 1 })
\* .map(addTwo), whose instance has two events), wrap (the inline
\* v => Trackable.of(v), without a name), boom (throws).
FlatMapFns ==
    {"addThreeAndRandom", "celebrateBDay", "addThreeThenTwo", "wrap", "boom"}

\* Math.random(), as far as the arithmetic of the model goes.
Random == {0, 1}

\* The random numbers a function may draw; one that draws none is given 0.
RandomOf(f) == IF f = "addThreeAndRandom" THEN Random ELSE {0}

\* Function.prototype.name: empty for an inline function.
FnName(f) == IF f \in {"arrow", "wrap"} THEN "" ELSE f

\* The values a function accepts (its parameter type).
Accepts(f, v) ==
    CASE f \in {"addTwo", "arrow", "thunk", "addThreeAndRandom",
                 "addThreeThenTwo"} -> v.k = "number"
      [] f \in {"changeName", "celebrateBDay"} -> v.k = "ref"
      [] f \in {"one", "wrap"} -> v.k # "number"
      [] OTHER -> TRUE

\* transformationFunction.name ?? 'anonymous': the empty name is kept.
CallerOfNullish(f) == FnName(f)

\* transformationFunction.name || 'anonymous'
CallerOf(f) == IF FnName(f) = "" THEN "anonymous" ELSE FnName(f)

\* The call f(v) of a function handed to map: the heap it leaves and the
\* value it returns.
ApplyMap(f, v, h) ==
    CASE f \in {"addTwo", "arrow"} ->
            [ok |-> TRUE, heap |-> h, ret |-> Num(v.n + 2)]
      [] f = "changeName" ->
            [ok |-> TRUE,
             heap |-> [h EXCEPT ![v.n].name = "some other name"],
             ret |-> Undefined]
      [] f = "one" -> [ok |-> TRUE, heap |-> h, ret |-> Num(1)]
      [] f = "thunk" -> [ok |-> TRUE, heap |-> h, ret |-> Fn]
      [] OTHER -> [ok |-> FALSE, heap |-> h, ret |-> Undefined]

\* map always adopts the value the transformation function returned.
MapNewValueAdopt(originalUnderlyingValue, resultOfTransformation) ==
    resultOfTransformation

\* newValueToFormTrackableWith: the original value when it is an object, a
\* function or a symbol, the result of the transformation otherwise.
MapNewValue(originalUnderlyingValue, resultOfTransformation) ==
    IF TypeOf(originalUnderlyingValue) \in {"object", "function", "symbol"}
    THEN originalUnderlyingValue
    ELSE resultOfTransformation

\* currentValue of map's event: structuredClone(this.getValue()), read
\* after the transformation function ran.
MapCurrentValue(thisValue, resultOfTransformation, h) ==
    structuredClone(thisValue, h)

\* map catches what the transformation function throws and goes on with
\* the value it has.
MapCatching(t, f, h) ==
    LET a == ApplyMap(f, t.value, h) IN
    Outcome(TRUE, a.heap,
            Trackable(IF a.ok THEN MapNewValue(t.value, a.ret) ELSE t.value,
                Append(t.log,
                    AnalyticsEvent({},
                        Metadata({"caller", "input", "currentValue"},
                                 CallerOf(f), structuredClone(t.value, h).v,
                                 structuredClone(t.value, a.heap).v)))),
            a.ret, NoTrackable)

\* map(transformationFunction) on the instance t
Map(t, f, h) ==
    LET input == structuredClone(t.value, h) IN
    IF ~input.ok THEN Threw(h, "DataCloneError")
    ELSE
    LET a == ApplyMap(f, t.value, h) IN
    IF ~a.ok THEN Threw(a.heap, "Error")
    ELSE
    LET cur == MapCurrentValue(t.value, a.ret, a.heap) IN
    IF ~cur.ok THEN Threw(a.heap, "DataCloneError")
    ELSE Outcome(TRUE, a.heap,
                 Trackable(MapNewValue(t.value, a.ret),
                     Append(t.log,
                         AnalyticsEvent({},
                             Metadata({"caller", "input", "currentValue"},
                                      CallerOf(f), input.v, cur.v)))),
                 a.ret, NoTrackable)

\* The call f(v) of a function handed to flatMap, r being the random number
\* it draws: the heap it leaves and the instance it returns.
ApplyFlatMap(f, v, r, h) ==
    CASE f = "addThreeAndRandom" ->
            Of(Num(v.n + 3 + r), {<<"randomNumber", r>>}, h)
      [] f = "celebrateBDay" ->
            Of(v, {<<"event", 2>>, <<"ageIncrement", 1>>},
               [h EXCEPT ![v.n].age = @ + 1])
      [] f = "addThreeThenTwo" ->
            LET first == Of(Num(v.n + 3), {<<"step", 1>>}, h) IN
            IF first.ok THEN Map(first.t, "addTwo", first.heap) ELSE first
      [] f = "wrap" -> Of(v, NoPayload, h)
      [] OTHER -> Threw(h, "Error")

\* flatMap appends the whole log of the returned instance, the last of its
\* events attributed to the call.
FlatMapMergeAll(outerEvents, innerEvents, metadata) ==
    outerEvents
    \o SubSeq(innerEvents, 1, Len(innerEvents) - 1)
    \o <<AnalyticsEvent(innerEvents[Len(innerEvents)].fields, metadata)>>

\* flatMap appends an event that has the metadata only.
FlatMapMergeNoFields(outerEvents, innerEvents, metadata) ==
    Append(outerEvents, AnalyticsEvent({}, metadata))

\* flatMap writes its event over the last event of this instance.
FlatMapMergeOverwrite(outerEvents, innerEvents, metadata) ==
    Append(SubSeq(outerEvents, 1, Len(outerEvents) - 1),
           AnalyticsEvent(innerEvents[1].fields, metadata))

\* mergedAnalyticsEvents of flatMap: the events of this instance, then the
\* first event of the returned instance with its metadata replaced.
FlatMapMerge(outerEvents, innerEvents, metadata) ==
    Append(outerEvents, AnalyticsEvent(innerEvents[1].fields, metadata))

\* flatMap(transformationFunction) on the instance t
FlatMap(t, f, r, h) ==
    LET input == structuredClone(t.value, h) IN
    IF ~input.ok THEN Threw(h, "DataCloneError")
    ELSE
    LET a == ApplyFlatMap(f, t.value, r, h) IN
    IF ~a.ok THEN Threw(a.heap, a.err)
    ELSE
    LET newUnderlyingValue == a.t.value
        cur == structuredClone(newUnderlyingValue, a.heap)
    IN
    IF ~cur.ok THEN Threw(a.heap, "DataCloneError")
    ELSE Outcome(TRUE, a.heap,
                 Trackable(newUnderlyingValue,
                     FlatMapMerge(t.log, a.t.log,
                         Metadata({"caller", "input", "currentValue"},
                                  CallerOf(f), input.v, cur.v))),
                 Undefined, a.t)

\* The merged array is the array of this instance with the event pushed
\* onto it.
ThisEventsShared(thisEvents, mergedAnalyticsEvents) == mergedAnalyticsEvents

\* The array of this instance when map/flatMap return:
\* [...this.getAnalyticsEvents(), event] copies the events into a new array
\* and nothing is assigned to this.analyticsEvents.
ThisEvents(thisEvents, mergedAnalyticsEvents) == thisEvents

\* ------------------------------------------------------------- the sinks
\* What a tracking function does with the array it is handed: nothing,
\* push an event, pop the last event; or throw.
Sinks == {"noop", "push", "pop", "throw"}

\* The tracking functions handed to runAsync: the promise it returns is
\* settled later, resolved or rejected.
AsyncSinks == {"noop"}

InjectedEvent ==
    AnalyticsEvent({<<"injected", 1>>},
                   Metadata({"currentValue"}, "", Undefined, Undefined))

SinkEffect(s, events) ==
    CASE s = "push" -> Append(events, InjectedEvent)
      [] s = "pop" -> SubSeq(events, 1, Len(events) - 1)
      [] OTHER -> events

\* The tracking function is called once for every event.
SinkArgumentsPerEvent(events) == [i \in 1..Len(events) |-> <<events[i]>>]

\* trackingFunction(events): the arguments of the calls of the tracking
\* function that one drain makes, one call with the array of this instance.
SinkArguments(events) == <<events>>

\* runAsync goes on without waiting for the promise.
AwaitedAlways(state) == TRUE

\* await trackingFunctionAsync(events): runAsync goes on when the promise
\* is settled.
Awaited(state) == state # "running"

\* run/runAsync catch the failure of the tracking function and return the
\* value.
DrainStatusCaught(failed) == "returned"

\* How run/runAsync end: return this.getValue() comes after the call of
\* the tracking function and is not reached when that call throws or its
\* promise is rejected.
DrainStatus(failed) == IF failed THEN "threw" ELSE "returned"

\* --------------------------------------------------------------- state
\* heap: the objects, by address.  ws: the Trackable instances made by the
\* program, in order of creation.  drains: the calls of run/runAsync.
\* sinkCalls: the calls of tracking functions.  thrown: what the last call
\* threw, "none" when it returned.
\*
\* Besides the fields of the class (value, log) an entry of ws keeps the
\* call that made the instance: the instance it was composed from (pred, 0
\* for of), the functions composed since of (hist), and in made the call's
\* operation, what the function returned (ret, inner), the value and the
\* log of pred when the call was made (vBefore, logBefore), and the value
\* and the log of the instance when the call returned (vAfter, log).
Instance(op, out, pred, hist) ==
    [value |-> out.t.value, log |-> out.t.log, pred |-> pred, hist |-> hist,
     made |-> [op |-> op, ret |-> out.ret, inner |-> out.inner,
               vBefore |-> IF pred = 0 THEN Undefined
                           ELSE View(ws[pred].value, heap),
               logBefore |-> IF pred = 0 THEN <<>> ELSE ws[pred].log,
               vAfter |-> View(out.t.value, out.heap),
               log |-> out.t.log]]

Init ==
    /\ heap = <<>>
    /\ ws = <<>>
    /\ drains = <<>>
    /\ sinkCalls = <<>>
    /\ thrown = "none"

\* The calls that returned so far leave room for one more.
CanCall == Len(ws) + Len(drains) < MaxCalls

CanCompose == CanCall /\ Len(ws) < MaxWrappers

CanDrain == CanCall /\ Len(drains) < MaxDrains

\* The program calls of once; every other instance is composed from that
\* one (the functions handed to flatMap call of themselves).
CanConstruct == ws = <<>>

\* A payload that has a property named metadata besides another one.
TaggedPayload == {<<"source", 1>>, <<"metadata", 1>>}

\* The calls of Trackable.of the program itself makes: the value, and the
\* payload (NoPayload when the second argument is left out).
RootCalls ==
    {<<Num(5), NoPayload>>, <<Str, NoPayload>>, <<Null, TaggedPayload>>,
     <<Fn, NoPayload>>}

\* Trackable.of(v, payload)
Construct(v, payload) ==
    /\ CanConstruct
    /\ LET out == Of(v, payload, heap) IN
       /\ ws' = IF out.ok THEN Append(ws, Instance("of", out, 0, <<>>)) ELSE ws
       /\ thrown' = out.err
       /\ heap' = out.heap
    /\ UNCHANGED <<drains, sinkCalls>>

\* createPersonWithEvent('sam', 27): Trackable.of({ name, age }, { event })
CreatePerson ==
    /\ CanConstruct
    /\ LET h == Append(heap, [name |-> "sam", age |-> 27])
           out == Of(Ref(Len(h)), {<<"event", 1>>}, h)
       IN
       /\ ws' = Append(ws, Instance("of", out, 0, <<>>))
       /\ thrown' = out.err
       /\ heap' = out.heap
    /\ UNCHANGED <<drains, sinkCalls>>

\* ws[w].map(f)
DoMap(w, f) ==
    /\ CanCompose
    /\ Accepts(f, ws[w].value)
    /\ LET out == Map(Trackable(ws[w].value, ws[w].log), f, heap) IN
       /\ ws' = IF out.ok
                THEN Append([ws EXCEPT ![w].log = ThisEvents(@, out.t.log)],
                            Instance("map", out, w, Append(ws[w].hist, f)))
                ELSE ws
       /\ thrown' = out.err
       /\ heap' = out.heap
    /\ UNCHANGED <<drains, sinkCalls>>

\* ws[w].flatMap(f), f drawing the random number r
DoFlatMap(w, f, r) ==
    /\ CanCompose
    /\ Accepts(f, ws[w].value)
    /\ LET out == FlatMap(Trackable(ws[w].value, ws[w].log), f, r, heap) IN
       /\ ws' = IF out.ok
                THEN Append([ws EXCEPT ![w].log = ThisEvents(@, out.t.log)],
                            Instance("flatMap", out, w, Append(ws[w].hist, f)))
                ELSE ws
       /\ thrown' = out.err
       /\ heap' = out.heap
    /\ UNCHANGED <<drains, sinkCalls>>

SinkCall(d, w, events, state) ==
    [d |-> d, w |-> w, events |-> events, state |-> state]

\* A call of run/runAsync on instance w; vBefore and logBefore are the
\* value and the array of the instance when the call was made, logAfter the
\* array when the tracking function returned.
Drain(w, kind, sink, status, result) ==
    [w |-> w, kind |-> kind, sink |-> sink, status |-> status,
     result |-> result, vBefore |-> View(ws[w].value, heap),
     logBefore |-> ws[w].log, logAfter |-> SinkEffect(sink, ws[w].log)]

\* The calls of the tracking function made by drain d of instance w.
CallsOfDrain(d, w, state) ==
    LET args == SinkArguments(ws[w].log) IN
    [i \in 1..Len(args) |-> SinkCall(d, w, args[i], state)]

\* ws[w].run(sink)
Run(w, sink) ==
    /\ CanDrain
    /\ LET d == Len(drains) + 1
           threw == sink = "throw"
       IN
       /\ sinkCalls' = sinkCalls
              \o CallsOfDrain(d, w, IF threw THEN "failed" ELSE "done")
       /\ ws' = [ws EXCEPT ![w].log = SinkEffect(sink, @)]
       /\ drains' = Append(drains,
              Drain(w, "run", sink, DrainStatus(threw),
                    IF DrainStatus(threw) = "threw" THEN Undefined
                    ELSE ws[w].value))
       /\ thrown' = IF DrainStatus(threw) = "threw" THEN "SinkError"
                    ELSE "none"
    /\ UNCHANGED heap

\* ws[w].runAsync(sink), up to the await
RunAsync(w, sink) ==
    /\ CanDrain
    /\ LET d == Len(drains) + 1 IN
       /\ sinkCalls' = sinkCalls \o CallsOfDrain(d, w, "running")
       /\ ws' = [ws EXCEPT ![w].log = SinkEffect(sink, @)]
       /\ drains' = Append(drains,
              Drain(w, "runAsync", sink, "pending", Undefined))
       /\ thrown' = "none"
    /\ UNCHANGED heap

\* The promise a tracking function returned is resolved or rejected.
SinkSettles(c, resolved) ==
    /\ sinkCalls[c].state = "running"
    /\ sinkCalls' =
           [sinkCalls EXCEPT ![c].state = IF resolved THEN "done" ELSE "failed"]
    /\ UNCHANGED <<heap, ws, drains, thrown>>

\* runAsync after the await: return this.getValue(), or the rejection
RunAsyncResume(d) ==
    /\ drains[d].status = "pending"
    /\ \A c \in DOMAIN sinkCalls :
           sinkCalls[c].d = d => Awaited(sinkCalls[c].state)
    /\ LET rejected == \E c \in DOMAIN sinkCalls :
                           sinkCalls[c].d = d /\ sinkCalls[c].state = "failed"
       IN
       /\ drains' = [drains EXCEPT
              ![d].status = DrainStatus(rejected),
              ![d].result = IF DrainStatus(rejected) = "threw" THEN Undefined
                            ELSE ws[drains[d].w].value]
       /\ thrown' = IF DrainStatus(rejected) = "threw" THEN "SinkError"
                    ELSE "none"
    /\ UNCHANGED <<heap, ws, sinkCalls>>

Next ==
    \/ \E c \in RootCalls : Construct(c[1], c[2])
    \/ CreatePerson
    \/ \E w \in DOMAIN ws, f \in MapFns : DoMap(w, f)
    \/ \E w \in DOMAIN ws, f \in FlatMapFns :
           \E r \in RandomOf(f) : DoFlatMap(w, f, r)
    \/ \E w \in DOMAIN ws, s \in Sinks : Run(w, s)
    \/ \E w \in DOMAIN ws, s \in AsyncSinks : RunAsync(w, s)
    \/ \E c \in DOMAIN sinkCalls, resolved \in BOOLEAN : SinkSettles(c, resolved)
    \/ \E d \in DOMAIN drains : RunAsyncResume(d)

Spec == Init /\ [][Next]_vars

\* The scheduling of the program: runAsync goes on once the promise it
\* awaits is settled.
FairSpec ==
    /\ Spec
    /\ \A d \in 1..MaxCalls : WF_vars(d \in DOMAIN drains /\ RunAsyncResume(d))

\* ============================================================ properties
\* The instances a chain went through to reach instance w: w, the instance
\* it was composed from, and so on back to the one made by of.
RECURSIVE Spine(_)
Spine(w) == IF w = 0 THEN {} ELSE {w} \cup Spine(ws[w].pred)

\* Call c of a tracking function is the drain that ends a chain: no
\* instance of the chain was drained before.
EndsChain(c) ==
    \A b \in 1..(c - 1) : sinkCalls[b].w \notin Spine(sinkCalls[c].w)

\* The name a stage is known by.
StageName(f) == IF FnName(f) = "" THEN "anonymous" ELSE FnName(f)

LastEvent(w) == ws[w].log[Len(ws[w].log)]

C3_SnapshotIsolation ==
    [][sinkCalls' = sinkCalls =>
         \A w \in DOMAIN ws : \A i \in DOMAIN ws[w].log :
             /\ i \in DOMAIN ws'[w].log
             /\ View(ws'[w].log[i].metadata.input, heap')
                    = View(ws[w].log[i].metadata.input, heap)
             /\ View(ws'[w].log[i].metadata.currentValue, heap')
                    = View(ws[w].log[i].metadata.currentValue, heap)]_vars

\* An instance holds an object that was changed in place after an event of
\* the instance recorded it: the input of its last event differs from what
\* the object is now, and so does the currentValue of an earlier event.
C3_Witness ==
    \E w \in DOMAIN ws :
        /\ ws[w].value.k = "ref"
        /\ Len(ws[w].log) >= 2
        /\ LastEvent(w).metadata.input.k = "obj"
        /\ LastEvent(w).metadata.input # View(ws[w].value, heap)
        /\ ws[w].log[1].metadata.currentValue.k = "obj"
        /\ ws[w].log[1].metadata.currentValue # View(ws[w].value, heap)

\* The instances made by operation op.
MadeBy(op) == {x \in DOMAIN ws : ws[x].made.op = op}

\* The event a composition call appended to the log it returned.
Appended(x) == ws[x].made.log[Len(ws[x].made.log)]

\* C4 as stated: the instance map returns holds the value f returned.
C4_Original ==
    \A x \in MadeBy("map") : ws[x].value = ws[x].made.ret

\* C4, amended: the instance map returns holds the value f returned when
\* the current value is neither an object nor null nor a function, and the
\* original current value when it is an object or null; on a function
\* current value map throws and returns no instance.
C4_MapValue ==
    \A x \in MadeBy("map") :
        LET v == ws[ws[x].pred].value IN
        /\ v.k \in {"number", "string", "undefined"}
               => ws[x].value = ws[x].made.ret
        /\ v.k \in {"ref", "null"} => ws[x].value = v
        /\ v.k # "function"

\* map was called on an object with a function that changed it in place
\* and returned undefined, and the instance it returned holds the object.
C4_Witness ==
    \E x \in MadeBy("map") :
        /\ ws[ws[x].pred].value.k = "ref"
        /\ ws[x].made.ret = Undefined
        /\ ws[x].value = ws[ws[x].pred].value
        /\ ws[x].made.vAfter # ws[x].made.vBefore

\* C5: the event map appends has the current value as it was before f ran
\* as input and the value after the stage, the one the returned instance
\* holds, as currentValue.
C5_MapEvent ==
    \A x \in MadeBy("map") :
        ws[x].value.k # "function" =>
            /\ Appended(x).metadata.input = ws[x].made.vBefore
            /\ Appended(x).metadata.currentValue = ws[x].made.vAfter

\* C6: the log flatMap returns has the length of the outer log plus the
\* length of the log of the instance f returned, the outer log first, then
\* an event for each event of that instance.
C6_FullFlatten ==
    \A x \in MadeBy("flatMap") :
        LET m == Len(ws[x].made.logBefore)
            k == Len(ws[x].made.inner.log)
            log == ws[x].made.log
        IN
        /\ Len(log) = m + k
        /\ SubSeq(log, 1, m) = ws[x].made.logBefore
        /\ \A j \in 1..k : log[m + j].fields = ws[x].made.inner.log[j].fields

\* C7: the instance flatMap returns holds the value of the instance f
\* returned; the last event of its log has the name of f as caller, the
\* outer value as it was before f ran as input, the value of the returned
\* instance as currentValue, and the free-form fields of the event that
\* instance was constructed with.
C7_FlatMapEvent ==
    \A x \in MadeBy("flatMap") :
        LET e == Appended(x) IN
        /\ ws[x].value = ws[x].made.inner.value
        /\ e.metadata.keys = {"caller", "input", "currentValue"}
        /\ e.metadata.caller = StageName(ws[x].hist[Len(ws[x].hist)])
        /\ e.metadata.input = ws[x].made.vBefore
        /\ e.metadata.currentValue = ws[x].made.vAfter
        /\ e.fields = ws[x].made.inner.log[1].fields

\* flatMap(celebrateBDay) returned: the function changed the object in
\* place and gave its instance the fields event and ageIncrement.
C7_Witness ==
    \E x \in MadeBy("flatMap") :
        /\ ws[x].hist[Len(ws[x].hist)] = "celebrateBDay"
        /\ <<"ageIncrement", 1>> \in Appended(x).fields
        /\ Appended(x).metadata.input.k = "obj"
        /\ Appended(x).metadata.input # Appended(x).metadata.currentValue

\* The calls of tracking functions made by drain d.
SinkCallsOf(d) == {c \in DOMAIN sinkCalls : sinkCalls[c].d = d}

\* C8: a call of run or runAsync calls the tracking function once, with the
\* whole log of the instance in order, and returns the value of the
\* instance only when that call has finished, for runAsync when the
\* promise is resolved.
C8_DrainOnce ==
    \A d \in DOMAIN drains :
        /\ Cardinality(SinkCallsOf(d)) = 1
        /\ \A c \in SinkCallsOf(d) :
               /\ sinkCalls[c].events = drains[d].logBefore
               /\ drains[d].status = "returned" =>
                      /\ sinkCalls[c].state = "done"
                      /\ drains[d].result = ws[drains[d].w].value

\* runAsync returned the value of an instance with three events after the
\* promise of the tracking function was resolved.
C8_Witness ==
    \E d \in DOMAIN drains :
        /\ drains[d].kind = "runAsync"
        /\ drains[d].status = "returned"
        /\ Len(drains[d].logBefore) = 3

\* C9: a drain leaves the value and the log of the instance as they were,
\* whatever the tracking function does with the array it is handed, and
\* the value it returns is the value the instance had before.
C9_DrainPurity ==
    \A d \in DOMAIN drains :
        /\ drains[d].logAfter = drains[d].logBefore
        /\ drains[d].status = "returned" =>
               View(drains[d].result, heap) = View(ws[drains[d].w].value, heap)

\* The drains of instance w.
DrainsOf(w) == {d \in DOMAIN drains : drains[d].w = w}

\* C10 as stated: an instance that was drained is not drained again, and
\* nothing is composed from an instance that was drained.
C10_Original ==
    /\ [](\A d \in DOMAIN drains : DrainsOf(drains[d].w) = {d})
    /\ [][Len(ws') > Len(ws) => DrainsOf(ws'[Len(ws')].pred) = {}]_vars

\* C10, amended: a drain does not end the life of an instance; as long as
\* the program goes on, run, runAsync, map and flatMap can be called on
\* every instance, drained or not, and the tracking functions were called
\* with the array of an instance once for every drain of the instance.
C10_NoDrainedState ==
    \A w \in DOMAIN ws :
        /\ Cardinality({c \in DOMAIN sinkCalls : sinkCalls[c].w = w})
               = Cardinality(DrainsOf(w))
        /\ CanDrain => ENABLED Run(w, "noop") /\ ENABLED RunAsync(w, "noop")
        /\ CanCompose =>
               /\ \E f \in MapFns : ENABLED DoMap(w, f)
               /\ \E f \in FlatMapFns : ENABLED DoFlatMap(w, f, 0)

\* An instance was drained twice, and an instance was composed from it
\* after a drain: its log has the event the tracking function pushed.
C10_Witness ==
    \E w \in DOMAIN ws :
        /\ Cardinality(DrainsOf(w)) = 2
        /\ \E x \in DOMAIN ws :
               /\ ws[x].pred = w
               /\ \E i \in DOMAIN ws[x].made.logBefore :
                      ws[x].made.logBefore[i] = InjectedEvent

\* The instance a step of composition was called on, 0 when the step is
\* not a call of map or flatMap that returned.
Receiver(before, after) ==
    IF Len(after) > Len(before) THEN after[Len(after)].pred ELSE 0

\* C11 as stated: when map or flatMap returns, the value of the instance
\* it was called on shows the same contents as before the call and its log
\* is the same, also when f changed the object in place.
C11_Original ==
    [][LET p == Receiver(ws, ws') IN
       p # 0 =>
           /\ View(ws'[p].value, heap') = View(ws[p].value, heap)
           /\ ws'[p].log = ws[p].log]_vars

\* C11, amended: when map or flatMap returns, the instance it was called on
\* holds the same value as before (the same primitive, the same object) and
\* the same log, and the instance returned is another one; an object that f
\* changed in place is the object the instance holds, changed.
C11_FrameFields ==
    [][LET p == Receiver(ws, ws') IN
       p # 0 =>
           /\ ws'[p].value = ws[p].value
           /\ ws'[p].log = ws[p].log
           /\ Len(ws') = Len(ws) + 1
           /\ p # Len(ws')]_vars

\* map(changeName) and flatMap(celebrateBDay) returned: the instances they
\* were called on hold the object they held and the log they had, and the
\* object is no longer what it was when they were called.
C11_Witness ==
    \E x \in MadeBy("map"), y \in MadeBy("flatMap") :
        /\ ws[ws[x].pred].value.k = "ref"
        /\ ws[ws[y].pred].value.k = "ref"
        /\ ws[x].made.vBefore # View(ws[ws[x].pred].value, heap)
        /\ ws[y].made.vBefore # View(ws[ws[y].pred].value, heap)
        /\ ws[ws[x].pred].log = ws[x].made.logBefore
        /\ ws[ws[y].pred].log = ws[y].made.logBefore

\* s is a prefix of t.
IsPrefix(s, t) == Len(s) <= Len(t) /\ SubSeq(t, 1, Len(s)) = s

\* C12: the log of the instance map or flatMap was called on, as it was
\* when the call was made, is a prefix of the log of the instance returned:
\* the same events in the same order, then the events appended.
C12_LogPrefix ==
    \A x \in MadeBy("map") \cup MadeBy("flatMap") :
        /\ IsPrefix(ws[x].made.logBefore, ws[x].made.log)
        /\ Len(ws[x].made.log) > Len(ws[x].made.logBefore)

\* A chain of two compositions, the second a flatMap: the instance has the
\* event of of, then the event of the first composition, then its own.
C12_Witness ==
    \E x \in MadeBy("flatMap") :
        /\ Len(ws[x].hist) = 2
        /\ Len(ws[x].made.log) = 3
        /\ ws[x].made.log[1] = ws[ws[ws[x].pred].pred].made.log[1]
        /\ ws[x].made.log[2] = ws[ws[x].pred].made.log[2]
        /\ "caller" \in ws[x].made.log[2].metadata.keys

\* What of leaves when it returns: an instance that holds value and whose
\* log is one event, with the fields of the payload and, as metadata, the
\* copy of the value and nothing else.
OfReturned(t, value, payload, h) ==
    /\ t.value = value
    /\ Len(t.log) = 1
    /\ t.log[1].metadata.keys = {"currentValue"}
    /\ t.log[1].metadata.currentValue.k # "ref"
    /\ t.log[1].metadata.currentValue = View(value, h)
    /\ t.log[1].fields = {p \in payload : p[1] # "metadata"}

\* C13 as stated: no call of of fails, whatever the value.
C13_Original ==
    [][\A c \in RootCalls :
           Construct(c[1], c[2]) =>
               /\ thrown' = "none"
               /\ Len(ws') = 1
               /\ OfReturned(ws'[1], c[1], c[2], heap')]_vars

\* C13, amended: of fails with a DataCloneError and returns no instance
\* when the value cannot be copied (a function); for every other value it
\* returns an instance that holds the value and a log of one event, whose
\* currentValue is a copy of the value, which has no caller and no input,
\* and which has the fields of the payload except one named metadata, no
\* field when no payload is given.
C13_OfCloneable ==
    [][/\ \A c \in RootCalls :
              Construct(c[1], c[2]) =>
                  IF c[1].k = "function"
                  THEN thrown' = "DataCloneError" /\ ws' = ws
                  ELSE /\ thrown' = "none"
                       /\ Len(ws') = 1
                       /\ OfReturned(ws'[1], c[1], c[2], heap')
       /\ CreatePerson =>
              /\ thrown' = "none"
              /\ Len(ws') = 1
              /\ OfReturned(ws'[1], Ref(Len(heap')), {<<"event", 1>>}, heap')
      ]_vars

\* of returned for a payload that has a property named metadata: the event
\* has the other field of the payload and the copy of the value.
C13_Witness ==
    \E x \in MadeBy("of") :
        /\ ws[x].made.log[1].fields = {<<"source", 1>>}
        /\ ws[x].made.log[1].metadata.currentValue = Null
        /\ ws[x].made.log[1].metadata.keys = {"currentValue"}

\* C14: when the function handed to map or flatMap throws, the call throws
\* what the function threw and returns no instance, and every instance has
\* the value and the log it had; no tracking function is called.
C14_ThrowPropagates ==
    [][\A w \in DOMAIN ws :
           structuredClone(ws[w].value, heap).ok =>
               /\ \A f \in MapFns :
                      (DoMap(w, f) /\ ~ApplyMap(f, ws[w].value, heap).ok) =>
                          /\ thrown' = "Error"
                          /\ ws' = ws
                          /\ sinkCalls' = sinkCalls
               /\ \A f \in FlatMapFns : \A r \in RandomOf(f) :
                      (DoFlatMap(w, f, r)
                          /\ ~ApplyFlatMap(f, ws[w].value, r, heap).ok) =>
                          /\ thrown' = "Error"
                          /\ ws' = ws
                          /\ sinkCalls' = sinkCalls]_vars

\* The function handed to a composition on the second instance of a chain
\* threw: the call threw, and the chain has the instances it had.
C14_Witness ==
    /\ thrown = "Error"
    /\ Len(ws) = 2
    /\ Len(ws[2].log) = 2
    /\ \A x \in DOMAIN ws : ws[x].log = ws[x].made.log

\* The calls of drain d's tracking function that threw or were rejected.
FailedCallsOf(d) == {c \in SinkCallsOf(d) : sinkCalls[c].state = "failed"}

\* C15: a call of run whose tracking function threw, and a call of
\* runAsync whose promise was rejected, throw and return no value, and they
\* called the tracking function once; a drain ends that way only when its
\* tracking function failed.
C15_SinkFailure ==
    \A d \in DOMAIN drains :
        /\ (FailedCallsOf(d) # {} /\ drains[d].status # "pending") =>
               /\ drains[d].status = "threw"
               /\ drains[d].result = Undefined
               /\ Cardinality(SinkCallsOf(d)) = 1
        /\ drains[d].status = "threw" => FailedCallsOf(d) # {}
        /\ (drains[d].kind = "run" /\ drains[d].sink = "throw") =>
               FailedCallsOf(d) # {}

\* A call of run whose tracking function threw, and a call of runAsync
\* that went on after its promise was rejected.
C15_Witness ==
    \E d, e \in DOMAIN drains :
        /\ drains[d].kind = "run"
        /\ drains[d].status = "threw"
        /\ drains[e].kind = "runAsync"
        /\ drains[e].status = "threw"
        /\ thrown = "SinkError"

\* The metadata of event e holds copies: currentValue is there, input is
\* there when the event is that of a composition, and neither is a
\* function or the live object.
HasSnapshots(e) ==
    /\ "currentValue" \in e.metadata.keys
    /\ e.metadata.currentValue.k \notin {"ref", "function"}
    /\ "caller" \in e.metadata.keys =>
           /\ "input" \in e.metadata.keys
           /\ e.metadata.input.k \notin {"ref", "function"}

\* C16: an operation that comes to a value that cannot be copied returns
\* no instance, so every instance holds a value that was copied into the
\* last event of the log it was made with, and every event of every log
\* holds copies.
C16_CloneFailure ==
    \A x \in DOMAIN ws :
        /\ structuredClone(ws[x].value, heap).ok
        /\ \A i \in DOMAIN ws[x].made.log : HasSnapshots(ws[x].made.log[i])

\* The random number the function of the flatMap that made x drew.
DrawnBy(x) ==
    IF <<"randomNumber", 1>> \in ws[x].made.inner.log[1].fields THEN 1 ELSE 0

\* The chain that leads to instance x, run alone: the instance it ends
\* with and the heap it leaves, computed by making the calls of the chain
\* one after the other on the object of was given, with nothing else
\* between them.
RECURSIVE Alone(_)
Alone(x) ==
    IF ws[x].pred = 0
    THEN [t |-> Trackable(ws[x].value, ws[x].made.log),
          heap |-> IF ws[x].value.k = "ref" THEN <<ws[x].made.vAfter.o>>
                   ELSE <<>>]
    ELSE LET prev == Alone(ws[x].pred)
             f == ws[x].hist[Len(ws[x].hist)]
             out == IF ws[x].made.op = "map" THEN Map(prev.t, f, prev.heap)
                    ELSE FlatMap(prev.t, f, DrawnBy(x), prev.heap)
         IN [t |-> out.t, heap |-> out.heap]

\* C17: whatever other calls come between the calls of a chain, the
\* tracking function of its drain is handed the log, and the drain returns
\* the value, that the chain gives when it is run alone; and a composition
\* leaves the log of an instance whose runAsync is suspended as it is.
C17_NoInterference ==
    /\ [](\A c \in DOMAIN sinkCalls :
             sinkCalls[c].events = Alone(sinkCalls[c].w).t.log)
    /\ [](\A d \in DOMAIN drains :
             (drains[d].kind = "run" /\ drains[d].status = "returned") =>
                 drains[d].vBefore
                     = View(Alone(drains[d].w).t.value, Alone(drains[d].w).heap))
    /\ [][\A d \in DOMAIN drains :
             /\ RunAsyncResume(d) /\ drains'[d].status = "returned" =>
                    View(drains'[d].result, heap')
                        = View(Alone(drains[d].w).t.value,
                               Alone(drains[d].w).heap)
             /\ (drains[d].status = "pending" /\ drains' = drains) =>
                    ws'[drains[d].w].log = ws[drains[d].w].log]_vars

====
